---- MODULE Spec2Model ----
(***************************************************************************)
(* A model of src/docker.rs: the subprocess execution engine (run_quiet,   *)
(* run_quiet_stdin, run_loud_stdin, run_attach), the spinner service       *)
(* (spin and the SPINNER_SERVICE worker thread), image_exists, and         *)
(* copy_from_container over a small host filesystem.                       *)
(***************************************************************************)
EXTENDS Integers, Sequences, FiniteSets, TLC

\* Number of caller threads that invoke the engine concurrently.
NumCallers == 2

Callers == 1..NumCallers

\* No caller: the worker serves no request.
NoCaller == 0

VARIABLES
  running,    \* the Cancellation Flag (running: &Arc<AtomicBool>)
  pc,         \* pc[c]: where caller c stands in its current call
  op,         \* op[c]: the function caller c has called
  child,      \* child[c]: the child process of the call, and how it ended
  status,     \* status[c]: the exit status the call has collected from its child
  result,     \* result[c]: the value the call has produced so far
  observed,   \* observed[c]: the flag at the moment the call found its failure
  spinning,   \* spinning[c]: the AtomicBool of c's spinner request (line 583)
  wpc,        \* the position of the SPINNER_SERVICE worker thread
  wcur,       \* the caller whose request the worker holds
  display,    \* the callers whose spinner frames are on the terminal
  sendq,      \* the callers blocked in SPINNER_SERVICE.send, in the order they began
  workers,    \* how many worker threads (and request channels) have been created
  fs,         \* the host filesystem: path -> node
  paths,      \* copy_from_container's paths argument
  idx,        \* the index in paths of the path being copied
  temp,       \* the temporary directory of the current path (<<>>: none)
  walked,     \* the entries WalkDir has yielded for the current path, in order
  snaps,      \* the destination tree as each successful copy_from_container left it
  runs        \* how many times copy_from_container has been called

engineVars == <<running, pc, op, child, status, result, observed, spinning, wpc, wcur, display>>

engineVarsButPc == <<running, op, child, status, result, observed, spinning, wpc, wcur, display>>

\* The variables of copy_from_container other than the filesystem.
copyVars == <<paths, idx, temp, walked, snaps, runs>>

\* The variables of the spinner service beyond the worker's own position.
serviceVars == <<sendq, workers>>

vars == <<engineVars, fs, copyVars, serviceVars>>

----------------------------------------------------------------------------
\* The four execution modes and image_exists, which wraps run_quiet.

EngineOps == {"run_quiet", "run_quiet_stdin", "run_loud_stdin", "run_attach", "image_exists"}

\* Modes that begin with `let _guard = spin(spinner_message)`.
Captured(o) == o \in {"run_quiet", "run_quiet_stdin", "image_exists", "copy_from_container"}

\* Modes that take a stdin writer callback.
HasWriter(o) == o \in {"run_quiet_stdin", "run_loud_stdin"}

\* super::INTERRUPT_MESSAGE
InterruptMessage == "interrupt"

\* How a spawned child can end: exit code zero, a non-zero exit code, or no
\* exit code at all (killed by a signal).
ExitStatuses == {"exit0", "exitN", "signal"}

\* Mutant: a captured mode returns the bare message, the captured standard
\* error is left out.
OpErrorNoStderr(o) == "error"

\* The error of a child that exited with a non-zero code: captured modes embed
\* the captured standard error, attached modes return the fixed message.
OpError(o) == IF Captured(o) THEN "error_with_stderr" ELSE "error"

\* Mutant: the is_none() test is dropped, a signal is reported as the
\* operation's own error.
ClassifyNoSignal(o, st) ==
  IF st = "exit0" THEN "ok" ELSE OpError(o)

\* The result of a call whose child's exit status was collected.
Classify(o, st) ==
  IF st = "exit0" THEN "ok"
  ELSE IF st = "signal" THEN InterruptMessage
  ELSE OpError(o)

\* An engine that never writes the flag.
FlagAfterNever(outcome, r) == r

\* Mutant: the flag is re-armed by a successful command.
FlagAfterRearm(outcome, r) ==
  IF outcome = "signal" THEN FALSE ELSE IF outcome = "exit0" THEN TRUE ELSE r

\* Mutant: every failure, a launch failure included, is taken for a
\* cancellation.
FlagAfterAnyFailure(outcome, r) ==
  IF outcome = "exit0" THEN r ELSE FALSE

\* The Cancellation Flag after an outcome of a call: running.store(false) is
\* reached only in the branch where status.code().is_none().
FlagAfter(outcome, r) ==
  IF outcome = "signal" THEN FALSE ELSE r

\* Mutant: no guard, the call returns without stopping its spinner.
UnwindNoGuard(o) == "ran"

\* Where a call goes once its result is decided: a captured mode first drops
\* its guard (the spinner is stopped and the acknowledgment awaited).
Unwind(o) == IF Captured(o) THEN "drop" ELSE "ran"

\* Mutant: finish_and_clear is missing, the frames stay on the terminal.
ClearedNot(d, c) == d

\* spinner.tick(): a frame of c's spinner is on the terminal.
Rendered(d, c) == d \cup {c}

\* spinner.finish_and_clear(): c's spinner is removed from the terminal.
Cleared(d, c) == d \ {c}

\* Mutant: the flag is ignored, a failure is always propagated.
ExistsResultNoFlag(res, r) ==
  IF res = "ok" THEN "true" ELSE res

\* What image_exists makes of run_quiet's result and the flag it loads.
ExistsResult(res, r) ==
  IF res = "ok" THEN "true"
  ELSE IF r THEN "false"
  ELSE res

\* The flag as image_exists could have seen it at the moment its inspect
\* command was found to have failed (a record for the properties; no code
\* reads it).
Observe(o, r) == IF o = "image_exists" THEN r ELSE TRUE

----------------------------------------------------------------------------
\* Paths and the host filesystem of copy_from_container.

\* How many times copy_from_container is called against the same destination.
NumRuns == 2

\* The longest paths argument.
MaxPaths == 2

IsPrefix(p, q) == Len(p) <= Len(q) /\ SubSeq(q, 1, Len(p)) = p

\* Path::parent
Parent(p) == SubSeq(p, 1, Len(p) - 1)

\* q.strip_prefix(p)
StripPrefix(q, p) == SubSeq(q, Len(p) + 1, Len(q))

Dir == [kind |-> "dir", data |-> <<>>]

File(content) == [kind |-> "file", data |-> content]

\* The arguments source_dir and destination_dir, and where tempdir() creates
\* its directories.
SourceDir == <<"src">>

DestinationDir == <<"dst">>

TempRoot == <<"tmp">>

\* The names tempdir() draws from; it returns one that does not exist.
TempNames == {"t1", "t2"}

\* The container's filesystem under source_dir, the same in every run: a
\* directory foo holding a file and a nested sub-directory, and a file f. A
\* file's data is named after the place it comes from.
ContainerTree ==
  (<<"src">> :> Dir)
  @@ (<<"src", "foo">> :> Dir)
  @@ (<<"src", "foo", "a">> :> File("foo/a"))
  @@ (<<"src", "foo", "sub">> :> Dir)
  @@ (<<"src", "foo", "sub", "b">> :> File("foo/sub/b"))
  @@ (<<"src", "f">> :> File("f"))

\* The paths a caller may ask for: a directory, a file, a file inside a
\* directory and a nested directory.
RequestPaths == {<<"foo">>, <<"f">>, <<"foo", "a">>, <<"foo", "sub">>}

PathLists ==
  UNION {[1..n -> RequestPaths] : n \in 0..MaxPaths}

IsDir(f, p) == p \in DOMAIN f /\ f[p].kind = "dir"

IsFile(f, p) == p \in DOMAIN f /\ f[p].kind = "file"

\* The filesystem without p and everything below it.
RemoveTree(f, p) ==
  [q \in {r \in DOMAIN f : ~IsPrefix(p, r)} |-> f[q]]

\* The non-empty prefixes of p, p included.
Prefixes(p) == {SubSeq(p, 1, n) : n \in 1..Len(p)}

\* create_dir_all(p) succeeds unless a file stands where a directory is needed.
CanCreateDirAll(f, p) == \A q \in Prefixes(p) : ~IsFile(f, q)

\* create_dir_all(p): p and its missing ancestors become directories.
CreateDirAll(f, p) ==
  [q \in DOMAIN f \cup Prefixes(p) |-> IF q \in DOMAIN f THEN f[q] ELSE Dir]

\* rename(from, to) of a file needs the directory of `to` and fails on a
\* directory standing at `to`.
CanRename(f, from, to) ==
  IsFile(f, from) /\ IsDir(f, Parent(to)) /\ ~IsDir(f, to)

\* rename(from, to): the file leaves `from` and replaces whatever file is at
\* `to`.
Rename(f, from, to) ==
  [q \in (DOMAIN f \ {from}) \cup {to} |-> IF q = to THEN f[from] ELSE f[q]]

\* Where `docker container cp container:src target` puts its copy: at target
\* when nothing is there, inside target under the source's own name when
\* target is an existing directory. This is what makes the command
\* non-idempotent (lines 176-186).
CpPlace(f, src, target) ==
  IF IsDir(f, target) THEN target \o <<src[Len(src)]>> ELSE target

\* The command succeeds when the source exists in the container, the
\* directory of the target exists and no file stands where a directory must go.
CpPossible(f, src, target) ==
  /\ src \in DOMAIN ContainerTree
  /\ IsDir(f, Parent(target))
  /\ ~(IsFile(f, CpPlace(f, src, target)) /\ ContainerTree[src].kind = "dir")

\* The filesystem after a successful `docker container cp container:src target`.
NativeCp(f, src, target) ==
  LET place == CpPlace(f, src, target)
      below == {q \in DOMAIN ContainerTree : IsPrefix(src, q)}
      made == {place \o StripPrefix(q, src) : q \in below}
  IN [p \in DOMAIN f \cup made |->
        IF p \in made
        THEN ContainerTree[src \o StripPrefix(p, place)]
        ELSE f[p]]

\* Mutant: the native copy is staged at one fixed place, not in a fresh
\* temporary directory.
TransferPlanShared(tmp, path) ==
  [source |-> SourceDir \o path,
   intermediate |-> TempRoot \o <<"data">>,
   destination |-> DestinationDir \o path]

\* Mutant: the native copy is pointed at the real destination.
TransferPlanDirect(tmp, path) ==
  [source |-> SourceDir \o path,
   intermediate |-> DestinationDir \o path,
   destination |-> DestinationDir \o path]

\* Mutant: an error return that undoes what the call has put at the
\* destination.
DropTempRollback(f, t) ==
  LET g == IF t = <<>> THEN f ELSE RemoveTree(f, t)
  IN [p \in {q \in DOMAIN g : ~(IsPrefix(DestinationDir, q) /\ q # DestinationDir)} |-> g[p]]

\* Mutant: a temporary directory that is kept when its handle goes away.
DropTempKeep(f, t) == f

\* The filesystem once the TempDir handle t has gone out of scope (<<>>: no
\* temporary directory has been created): the directory and all it holds
\* are removed.
DropTemp(f, t) == IF t = <<>> THEN f ELSE RemoveTree(f, t)

\* What needs to go where (lines 192-194).
TransferPlan(tmp, path) ==
  [source |-> SourceDir \o path,
   intermediate |-> tmp \o <<"data">>,
   destination |-> DestinationDir \o path]

\* Mutant: the entry's path is taken relative to the temporary directory, not
\* to the staged copy.
EntryDestinationUnderData(destination, entry) ==
  destination \o <<"data">> \o entry

\* destination.join(entry_path.strip_prefix(&intermediate)), for an entry
\* given by its path relative to the staged copy.
EntryDestination(destination, entry) == destination \o entry

\* The paths an entry of a staged copy can have, relative to the copy.
WalkEntries ==
  {StripPrefix(q, p) : p \in {r \in DOMAIN ContainerTree : r # SourceDir},
                       q \in {r \in DOMAIN ContainerTree : r # SourceDir}}

\* The part of the filesystem under destination_dir.
DestTree(f) ==
  [q \in {r \in DOMAIN f : IsPrefix(DestinationDir, r)} |-> f[q]]

----------------------------------------------------------------------------
\* The host filesystem before any copy: the temporary root exists, the
\* destination directory exists (empty) or not.
\* A guard that forgets to stop the spinner.
ReleasedNot(s, c) == s

\* The guard's spinning.store(false): c's spinner is told to stop.
Released(s, c) == [s EXCEPT ![c] = FALSE]

\* A request channel with a buffer: a send succeeds whatever the worker does.
ReceiverReadyBuffered(w) == w # "none"

\* The request channel is bounded(0): a send can complete only while the
\* worker stands in request_receiver.recv().
ReceiverReady(w) == w = "recv"

\* The queue of blocked senders once c's send has completed.
Withdraw(q, c) == SelectSeq(q, LAMBDA x : x # c)

\* A service initialised by every call of spin().
WorkersAfterDerefEager(n) == n + 1

\* lazy_static: the initialiser of SPINNER_SERVICE runs on the first
\* dereference and never again.
WorkersAfterDeref(n) == IF n = 0 THEN 1 ELSE n

InitialFs(withDst) ==
  IF withDst THEN (<<"tmp">> :> Dir) @@ (<<"dst">> :> Dir) ELSE (<<"tmp">> :> Dir)

Init ==
  /\ running = TRUE
  /\ pc = [c \in Callers |-> "idle"]
  /\ op = [c \in Callers |-> "none"]
  /\ child = [c \in Callers |-> "none"]
  /\ status = [c \in Callers |-> "none"]
  /\ result = [c \in Callers |-> "none"]
  /\ observed = [c \in Callers |-> TRUE]
  /\ spinning = [c \in Callers |-> FALSE]
  /\ wpc = "none"
  /\ wcur = NoCaller
  /\ display = {}
  /\ sendq = <<>>
  /\ workers = 0
  /\ fs = InitialFs(TRUE)
  /\ paths = <<>>
  /\ idx = 0
  /\ temp = <<>>
  /\ walked = <<>>
  /\ snaps = <<>>
  /\ runs = 0

\* A caller calls one of the engine's functions.
Call(c, o) ==
  /\ pc[c] = "idle"
  /\ op' = [op EXCEPT ![c] = o]
  /\ pc' = [pc EXCEPT ![c] = IF Captured(o) THEN "spin" ELSE "launch"]
  /\ UNCHANGED <<running, child, status, result, observed, spinning, wpc, wcur, display>>
  /\ UNCHANGED <<fs, copyVars>>
  /\ UNCHANGED serviceVars

\* spin(), up to its send: the service is created on first use, the spinning
\* flag is created true, and the caller starts to send its request.
Spin(c) ==
  /\ pc[c] = "spin"
  /\ wpc' = IF wpc = "none" THEN "recv" ELSE wpc
  /\ spinning' = [spinning EXCEPT ![c] = TRUE]
  /\ pc' = [pc EXCEPT ![c] = "send"]
  /\ workers' = WorkersAfterDeref(workers)
  /\ sendq' = Append(sendq, c)
  /\ UNCHANGED <<running, op, child, status, result, observed, wcur, display>>
  /\ UNCHANGED <<fs, copyVars>>

\* The rendezvous on the request channel: the worker's recv meets c's send.
WorkerRecv(c) ==
  /\ ReceiverReady(wpc)
  /\ pc[c] = "send"
  /\ wcur' = c
  /\ wpc' = "animate"
  /\ pc' = [pc EXCEPT ![c] = "launch"]
  /\ sendq' = Withdraw(sendq, c)
  /\ workers' = workers
  /\ UNCHANGED <<running, op, child, status, result, observed, spinning, display>>
  /\ UNCHANGED <<fs, copyVars>>

\* One turn of the worker's loop while the spinning flag is true.
WorkerTick ==
  /\ wpc = "animate"
  /\ spinning[wcur]
  /\ display' = Rendered(display, wcur)
  /\ UNCHANGED <<running, pc, op, child, status, result, observed, spinning, wpc, wcur>>
  /\ UNCHANGED <<fs, copyVars>>
  /\ UNCHANGED serviceVars

\* The worker finds the spinning flag false and clears the spinner.
WorkerFinish ==
  /\ wpc = "animate"
  /\ ~spinning[wcur]
  /\ display' = Cleared(display, wcur)
  /\ wpc' = "respond"
  /\ UNCHANGED <<running, pc, op, child, status, result, observed, spinning, wcur>>
  /\ UNCHANGED <<fs, copyVars>>
  /\ UNCHANGED serviceVars

\* The rendezvous on the response channel: the worker's send meets the recv
\* of c's guard, which ends the call to run_quiet or run_quiet_stdin.
WorkerRespond(c) ==
  /\ wpc = "respond"
  /\ wcur = c
  /\ pc[c] = "await_ack"
  /\ wpc' = "recv"
  /\ wcur' = NoCaller
  /\ pc' = [pc EXCEPT ![c] = "ran"]
  /\ UNCHANGED <<running, op, child, status, result, observed, spinning, display>>
  /\ UNCHANGED <<fs, copyVars>>
  /\ UNCHANGED serviceVars

\* The child is spawned.
Launch(c) ==
  /\ pc[c] = "launch"
  /\ child' = [child EXCEPT ![c] = "alive"]
  /\ pc' = [pc EXCEPT ![c] = IF HasWriter(op[c]) THEN "write" ELSE "wait"]
  /\ UNCHANGED <<running, op, status, result, observed, spinning, wpc, wcur, display>>
  /\ UNCHANGED <<fs, copyVars>>
  /\ UNCHANGED serviceVars

\* The child cannot be spawned.
LaunchFail(c) ==
  /\ pc[c] = "launch"
  /\ result' = [result EXCEPT ![c] = "launch_error"]
  /\ running' = FlagAfter("spawn_failed", running)
  /\ observed' = [observed EXCEPT ![c] = Observe(op[c], running')]
  /\ pc' = [pc EXCEPT ![c] = Unwind(op[c])]
  /\ UNCHANGED <<op, child, status, spinning, wpc, wcur, display>>
  /\ UNCHANGED <<fs, copyVars>>
  /\ UNCHANGED serviceVars

\* The child process ends, with an exit code or killed by a signal.
ChildExit(c, s) ==
  /\ child[c] = "alive"
  /\ pc[c] \in {"write", "wait"}
  /\ child' = [child EXCEPT ![c] = s]
  /\ IF op[c] = "copy_from_container" /\ s = "exit0"
     THEN LET plan == TransferPlan(temp, paths[idx])
          IN /\ CpPossible(fs, plan.source, plan.intermediate)
             /\ fs' = NativeCp(fs, plan.source, plan.intermediate)
     ELSE fs' = fs
  /\ UNCHANGED <<running, pc, op, status, result, observed, spinning, wpc, wcur, display>>
  /\ UNCHANGED copyVars
  /\ UNCHANGED serviceVars

\* The stdin writer callback returns Ok.
Write(c) ==
  /\ pc[c] = "write"
  /\ pc' = [pc EXCEPT ![c] = "wait"]
  /\ UNCHANGED <<running, op, child, status, result, observed, spinning, wpc, wcur, display>>
  /\ UNCHANGED <<fs, copyVars>>
  /\ UNCHANGED serviceVars

\* The stdin writer callback returns an error (the pipe is broken when the
\* child has ended): the call returns it at once, the child is not waited for.
WriteFail(c) ==
  /\ pc[c] = "write"
  /\ result' = [result EXCEPT ![c] = "writer_error"]
  /\ running' = FlagAfter("writer_failed", running)
  /\ observed' = [observed EXCEPT ![c] = Observe(op[c], running')]
  /\ pc' = [pc EXCEPT ![c] = Unwind(op[c])]
  /\ UNCHANGED <<op, child, status, spinning, wpc, wcur, display>>
  /\ UNCHANGED <<fs, copyVars>>
  /\ UNCHANGED serviceVars

\* The wait returns the exit status of the child, and the call classifies it.
Wait(c) ==
  /\ pc[c] = "wait"
  /\ child[c] \in ExitStatuses
  /\ status' = [status EXCEPT ![c] = child[c]]
  /\ result' = [result EXCEPT ![c] = Classify(op[c], status'[c])]
  /\ running' = FlagAfter(status'[c], running)
  /\ observed' = [observed EXCEPT ![c] = Observe(op[c], running')]
  /\ pc' = [pc EXCEPT ![c] = Unwind(op[c])]
  /\ UNCHANGED <<op, child, spinning, wpc, wcur, display>>
  /\ UNCHANGED <<fs, copyVars>>
  /\ UNCHANGED serviceVars

\* The wait itself fails: no exit status is obtained.
WaitFail(c) ==
  /\ pc[c] = "wait"
  /\ child[c] = "alive"
  /\ child' = [child EXCEPT ![c] = "lost"]
  /\ result' = [result EXCEPT ![c] = "launch_error"]
  /\ running' = FlagAfter("wait_failed", running)
  /\ observed' = [observed EXCEPT ![c] = Observe(op[c], running')]
  /\ pc' = [pc EXCEPT ![c] = Unwind(op[c])]
  /\ UNCHANGED <<op, status, spinning, wpc, wcur, display>>
  /\ UNCHANGED <<fs, copyVars>>
  /\ UNCHANGED serviceVars

\* The guard is dropped: the spinning flag is set to false and the caller
\* starts to wait for the acknowledgment.
Drop(c) ==
  /\ pc[c] = "drop"
  /\ spinning' = Released(spinning, c)
  /\ pc' = [pc EXCEPT ![c] = "await_ack"]
  /\ UNCHANGED <<running, op, child, status, result, observed, wpc, wcur, display>>
  /\ UNCHANGED <<fs, copyVars>>
  /\ UNCHANGED serviceVars

\* image_exists, after run_quiet has returned: the flag is loaded and decides
\* what a failure means.
ImageExists(c) ==
  /\ pc[c] = "ran"
  /\ op[c] = "image_exists"
  /\ result' = [result EXCEPT ![c] = ExistsResult(result[c], running)]
  /\ pc' = [pc EXCEPT ![c] = "done"]
  /\ UNCHANGED <<running, op, child, status, observed, spinning, wpc, wcur, display>>
  /\ UNCHANGED <<fs, copyVars>>
  /\ UNCHANGED serviceVars

\* The caller has its result and is free to call again.
Return(c) ==
  /\ \/ pc[c] = "ran" /\ op[c] \in EngineOps \ {"image_exists"}
     \/ pc[c] = "done"
  /\ pc' = [pc EXCEPT ![c] = "idle"]
  /\ op' = [op EXCEPT ![c] = "none"]
  /\ child' = [child EXCEPT ![c] = "none"]
  /\ status' = [status EXCEPT ![c] = "none"]
  /\ result' = [result EXCEPT ![c] = "none"]
  /\ observed' = [observed EXCEPT ![c] = TRUE]
  /\ UNCHANGED <<running, spinning, wpc, wcur, display>>
  /\ UNCHANGED <<fs, copyVars>>
  /\ UNCHANGED serviceVars

\* The operation returns to a caller that makes no further call: its thread
\* goes on with other work or ends.
Exit(c) ==
  /\ \/ pc[c] = "ran" /\ op[c] \in EngineOps \ {"image_exists"}
     \/ pc[c] = "done"
  /\ pc' = [pc EXCEPT ![c] = "end"]
  /\ op' = [op EXCEPT ![c] = "none"]
  /\ child' = [child EXCEPT ![c] = "none"]
  /\ status' = [status EXCEPT ![c] = "none"]
  /\ result' = [result EXCEPT ![c] = "none"]
  /\ observed' = [observed EXCEPT ![c] = TRUE]
  /\ UNCHANGED <<running, spinning, wpc, wcur, display>>
  /\ UNCHANGED <<fs, copyVars>>
  /\ UNCHANGED serviceVars

----------------------------------------------------------------------------
\* copy_from_container. One call is in flight at a time; it is called up to
\* NumRuns times with the same arguments.

\* The plan of the path being copied.
Plan == TransferPlan(temp, paths[idx])

\* Entries of the staged copy not yet yielded, directly inside directory d
\* (d and the entries are paths relative to the staged copy).
Unvisited(d) ==
  {e \in {StripPrefix(q, Plan.intermediate) :
            q \in {r \in DOMAIN fs : IsPrefix(Plan.intermediate, r)}} :
     /\ Len(e) = Len(d) + 1
     /\ IsPrefix(d, e)
     /\ \A i \in 1..Len(walked) : walked[i] # e}

\* The entries WalkDir may yield next from directory d: what is left inside
\* d, or else what is left in the nearest directory above it. The order among
\* the entries of one directory is the operating system's.
RECURSIVE WalkFrom(_)
WalkFrom(d) ==
  IF Unvisited(d) # {} THEN Unvisited(d)
  ELSE IF d = <<>> THEN {}
  ELSE WalkFrom(Parent(d))

\* Mutant: a traversal that yields the staged entries in any order.
NextEntriesAnyOrder ==
  {e \in {StripPrefix(q, Plan.intermediate) :
            q \in {r \in DOMAIN fs : IsPrefix(Plan.intermediate, r)}} :
     \A i \in 1..Len(walked) : walked[i] # e}

\* The entries WalkDir::new(&intermediate) may yield next: first the staged
\* copy itself, then depth first, a directory before its contents.
NextEntries ==
  IF walked = <<>> THEN {<<>>}
  ELSE LET last == walked[Len(walked)]
       IN WalkFrom(IF IsDir(fs, Plan.intermediate \o last) THEN last ELSE Parent(last))

\* The call begins (no other call of the engine is in flight).
StartCopy(c) ==
  /\ \A d \in Callers : pc[d] = "idle"
  /\ runs < NumRuns
  /\ runs' = runs + 1
  /\ op' = [op EXCEPT ![c] = "copy_from_container"]
  /\ pc' = [pc EXCEPT ![c] = "cp_loop"]
  /\ idx' = 1
  /\ UNCHANGED <<running, child, status, result, observed, spinning, wpc, wcur, display>>
  /\ UNCHANGED <<fs, paths, temp, walked, snaps>>
  /\ UNCHANGED serviceVars

\* The loop takes the next path: tempdir() creates a directory that did not
\* exist, and run_quiet is called.
CopyTempDir(c, t) ==
  /\ pc[c] = "cp_loop"
  /\ idx <= Len(paths)
  /\ TempRoot \o <<t>> \notin DOMAIN fs
  /\ temp' = TempRoot \o <<t>>
  /\ fs' = CreateDirAll(fs, temp')
  /\ child' = [child EXCEPT ![c] = "none"]
  /\ status' = [status EXCEPT ![c] = "none"]
  /\ result' = [result EXCEPT ![c] = "none"]
  /\ pc' = [pc EXCEPT ![c] = "spin"]
  /\ UNCHANGED <<running, op, observed, spinning, wpc, wcur, display>>
  /\ UNCHANGED <<paths, idx, walked, snaps, runs>>
  /\ UNCHANGED serviceVars

\* Every path has been copied: Ok(()).
CopyFinish(c) ==
  /\ pc[c] = "cp_loop"
  /\ idx > Len(paths)
  /\ result' = [result EXCEPT ![c] = "ok"]
  /\ snaps' = Append(snaps, DestTree(fs))
  /\ pc' = [pc EXCEPT ![c] = "done"]
  /\ UNCHANGED <<running, op, child, status, observed, spinning, wpc, wcur, display>>
  /\ UNCHANGED <<fs, paths, idx, temp, walked, runs>>
  /\ UNCHANGED serviceVars

\* run_quiet returned an error: it is propagated, the temporary directory is
\* dropped.
CopyRunFailed(c) ==
  /\ pc[c] = "ran"
  /\ op[c] = "copy_from_container"
  /\ result[c] # "ok"
  /\ fs' = DropTemp(fs, temp)
  /\ temp' = <<>>
  /\ pc' = [pc EXCEPT ![c] = "done"]
  /\ UNCHANGED <<running, op, child, status, result, observed, spinning, wpc, wcur, display>>
  /\ UNCHANGED <<paths, idx, walked, snaps, runs>>
  /\ UNCHANGED serviceVars

\* metadata(&intermediate) tells a file from a directory.
CopyMetadata(c) ==
  /\ pc[c] = "ran"
  /\ op[c] = "copy_from_container"
  /\ result[c] = "ok"
  /\ Plan.intermediate \in DOMAIN fs
  /\ pc' = [pc EXCEPT ![c] = IF IsFile(fs, Plan.intermediate) THEN "file_mkdir" ELSE "walk"]
  /\ result' = [result EXCEPT ![c] = "none"]
  /\ walked' = <<>>
  /\ UNCHANGED <<running, op, child, status, observed, spinning, wpc, wcur, display>>
  /\ UNCHANGED <<fs, paths, idx, temp, snaps, runs>>
  /\ UNCHANGED serviceVars

\* The file case: the directory of the destination is created.
CopyFileMkdir(c) ==
  /\ pc[c] = "file_mkdir"
  /\ CanCreateDirAll(fs, Parent(Plan.destination))
  /\ fs' = CreateDirAll(fs, Parent(Plan.destination))
  /\ pc' = [pc EXCEPT ![c] = "file_rename"]
  /\ UNCHANGED engineVarsButPc
  /\ UNCHANGED copyVars
  /\ UNCHANGED serviceVars

\* The file case: the staged file is moved to the destination, which ends
\* the iteration (the temporary directory is dropped).
CopyFileRename(c) ==
  /\ pc[c] = "file_rename"
  /\ CanRename(fs, Plan.intermediate, Plan.destination)
  /\ fs' = DropTemp(Rename(fs, Plan.intermediate, Plan.destination), temp)
  /\ temp' = <<>>
  /\ idx' = idx + 1
  /\ pc' = [pc EXCEPT ![c] = "cp_loop"]
  /\ UNCHANGED engineVarsButPc
  /\ UNCHANGED <<paths, walked, snaps, runs>>
  /\ UNCHANGED serviceVars

\* The directory case, an entry that is a directory: it is created at the
\* destination.
CopyWalkDir(c, e) ==
  /\ pc[c] = "walk"
  /\ e \in NextEntries
  /\ IsDir(fs, Plan.intermediate \o e)
  /\ CanCreateDirAll(fs, EntryDestination(Plan.destination, e))
  /\ fs' = CreateDirAll(fs, EntryDestination(Plan.destination, e))
  /\ walked' = Append(walked, e)
  /\ UNCHANGED pc
  /\ UNCHANGED engineVarsButPc
  /\ UNCHANGED <<paths, idx, temp, snaps, runs>>
  /\ UNCHANGED serviceVars

\* The directory case, an entry that is a file: it is moved to the
\* destination.
CopyWalkFile(c, e) ==
  /\ pc[c] = "walk"
  /\ e \in NextEntries
  /\ IsFile(fs, Plan.intermediate \o e)
  /\ CanRename(fs, Plan.intermediate \o e, EntryDestination(Plan.destination, e))
  /\ fs' = Rename(fs, Plan.intermediate \o e, EntryDestination(Plan.destination, e))
  /\ walked' = Append(walked, e)
  /\ UNCHANGED pc
  /\ UNCHANGED engineVarsButPc
  /\ UNCHANGED <<paths, idx, temp, snaps, runs>>
  /\ UNCHANGED serviceVars

\* The walk is over, which ends the iteration (the temporary directory is
\* dropped).
CopyWalkEnd(c) ==
  /\ pc[c] = "walk"
  /\ NextEntries = {}
  /\ fs' = DropTemp(fs, temp)
  /\ temp' = <<>>
  /\ walked' = <<>>
  /\ idx' = idx + 1
  /\ pc' = [pc EXCEPT ![c] = "cp_loop"]
  /\ UNCHANGED engineVarsButPc
  /\ UNCHANGED <<paths, snaps, runs>>
  /\ UNCHANGED serviceVars

\* A filesystem step fails (tempdir, metadata, create_dir_all, rename or the
\* traversal): the error is returned at once, the temporary directory, if
\* one exists, is dropped.
CopyIoFail(c) ==
  /\ \/ pc[c] = "cp_loop" /\ idx <= Len(paths)
     \/ pc[c] = "ran" /\ op[c] = "copy_from_container" /\ result[c] = "ok"
     \/ pc[c] \in {"file_mkdir", "file_rename"}
     \/ pc[c] = "walk" /\ NextEntries # {}
  /\ result' = [result EXCEPT ![c] = "io_error"]
  /\ fs' = DropTemp(fs, temp)
  /\ temp' = <<>>
  /\ walked' = <<>>
  /\ pc' = [pc EXCEPT ![c] = "done"]
  /\ UNCHANGED <<running, op, child, status, observed, spinning, wpc, wcur, display>>
  /\ UNCHANGED <<paths, idx, snaps, runs>>
  /\ UNCHANGED serviceVars

Next ==
  \/ \E c \in Callers, o \in EngineOps : Call(c, o)
  \/ \E c \in Callers : Spin(c)
  \/ \E c \in Callers : WorkerRecv(c)
  \/ WorkerTick
  \/ WorkerFinish
  \/ \E c \in Callers : WorkerRespond(c)
  \/ \E c \in Callers : Launch(c)
  \/ \E c \in Callers : LaunchFail(c)
  \/ \E c \in Callers, s \in ExitStatuses : ChildExit(c, s)
  \/ \E c \in Callers : Write(c)
  \/ \E c \in Callers : WriteFail(c)
  \/ \E c \in Callers : Wait(c)
  \/ \E c \in Callers : WaitFail(c)
  \/ \E c \in Callers : Drop(c)
  \/ \E c \in Callers : ImageExists(c)
  \/ \E c \in Callers : Return(c)

Spec == Init /\ [][Next]_vars

\* copy_from_container called again and again, against one destination, with
\* one paths argument.
InitCopy ==
  /\ running = TRUE
  /\ pc = [c \in Callers |-> "idle"]
  /\ op = [c \in Callers |-> "none"]
  /\ child = [c \in Callers |-> "none"]
  /\ status = [c \in Callers |-> "none"]
  /\ result = [c \in Callers |-> "none"]
  /\ observed = [c \in Callers |-> TRUE]
  /\ spinning = [c \in Callers |-> FALSE]
  /\ wpc = "none"
  /\ wcur = NoCaller
  /\ display = {}
  /\ sendq = <<>>
  /\ workers = 0
  /\ \E withDst \in BOOLEAN : fs = InitialFs(withDst)
  /\ paths \in PathLists
  /\ idx = 0
  /\ temp = <<>>
  /\ walked = <<>>
  /\ snaps = <<>>
  /\ runs = 0

NextCopy ==
  \/ \E c \in Callers : StartCopy(c)
  \/ \E c \in Callers, t \in TempNames : CopyTempDir(c, t)
  \/ \E c \in Callers : CopyFinish(c)
  \/ \E c \in Callers : Spin(c)
  \/ \E c \in Callers : WorkerRecv(c)
  \/ WorkerTick
  \/ WorkerFinish
  \/ \E c \in Callers : WorkerRespond(c)
  \/ \E c \in Callers : Launch(c)
  \/ \E c \in Callers : LaunchFail(c)
  \/ \E c \in Callers, s \in ExitStatuses : ChildExit(c, s)
  \/ \E c \in Callers : Wait(c)
  \/ \E c \in Callers : WaitFail(c)
  \/ \E c \in Callers : Drop(c)
  \/ \E c \in Callers : CopyRunFailed(c)
  \/ \E c \in Callers : CopyMetadata(c)
  \/ \E c \in Callers : CopyFileMkdir(c)
  \/ \E c \in Callers : CopyFileRename(c)
  \/ \E c \in Callers, e \in WalkEntries : CopyWalkDir(c, e)
  \/ \E c \in Callers, e \in WalkEntries : CopyWalkFile(c, e)
  \/ \E c \in Callers : CopyWalkEnd(c)
  \/ \E c \in Callers : CopyIoFail(c)
  \/ \E c \in Callers : Return(c)

SpecCopy == InitCopy /\ [][NextCopy]_vars

\* Concurrent callers that each run one spinner-decorated operation, under a
\* fair scheduler.
SpinnerOps == {o \in EngineOps : Captured(o)}

NextLive ==
  \/ \E c \in Callers, o \in SpinnerOps : Call(c, o)
  \/ \E c \in Callers : Spin(c)
  \/ \E c \in Callers : WorkerRecv(c)
  \/ WorkerTick
  \/ WorkerFinish
  \/ \E c \in Callers : WorkerRespond(c)
  \/ \E c \in Callers : Launch(c)
  \/ \E c \in Callers : LaunchFail(c)
  \/ \E c \in Callers, s \in ExitStatuses : ChildExit(c, s)
  \/ \E c \in Callers : Write(c)
  \/ \E c \in Callers : WriteFail(c)
  \/ \E c \in Callers : Wait(c)
  \/ \E c \in Callers : WaitFail(c)
  \/ \E c \in Callers : Drop(c)
  \/ \E c \in Callers : ImageExists(c)
  \/ \E c \in Callers : Exit(c)

\* The next step of caller c's thread, on its own.
CallerStep(c) ==
  \/ Spin(c)
  \/ Launch(c) \/ LaunchFail(c)
  \/ Write(c) \/ WriteFail(c)
  \/ Wait(c) \/ WaitFail(c)
  \/ Drop(c)
  \/ ImageExists(c)
  \/ Exit(c)

\* The next step of the worker thread other than drawing a frame; a
\* rendezvous is a step of the worker with the caller it meets.
WorkerStep ==
  \/ \E c \in Callers : WorkerRecv(c)
  \/ WorkerFinish
  \/ \E c \in Callers : WorkerRespond(c)

\* The threads are scheduled fairly: a caller thread or the worker thread
\* that can take a step eventually takes one (a thread blocked in a
\* rendezvous proceeds once its partner stands ready), the calls into the
\* operating system return, and every child eventually exits. Nothing obliges
\* a caller to call, nor the worker to draw another frame.
FairLive ==
  /\ WF_vars(WorkerStep)
  /\ \A c \in Callers :
       /\ WF_vars(CallerStep(c))
       /\ WF_vars(\E s \in ExitStatuses : ChildExit(c, s))

SpecLive == Init /\ [][NextLive]_vars /\ FairLive

----------------------------------------------------------------------------
\* Properties of the execution engine and the spinner service.

\* An execution mode has returned to its caller with result[c].
RunReturned(c) == pc[c] = "ran"

C2_FlagMonotonic == [][running = FALSE => running' = FALSE]_vars

\* A command has succeeded after the flag was set to false.
C2_Witness ==
  \E c \in Callers : RunReturned(c) /\ result[c] = "ok" /\ running = FALSE

\* The worker has accepted c's spinner request and c has not yet received the
\* acknowledgment for it.
Held(c) ==
  Captured(op[c]) /\ pc[c] \in {"launch", "write", "wait", "drop", "await_ack"}

\* C3: at most one spinner is on the terminal, at most one accepted request
\* is unacknowledged, and while the worker animates a request no other
\* caller's spinner is on the terminal or still waits for its acknowledgment.
C3_SingleSpinner ==
  /\ Cardinality(display) <= 1
  /\ Cardinality({c \in Callers : Held(c)}) <= 1
  /\ wpc = "animate" =>
       \A d \in Callers \ {wcur} : ~Held(d) /\ d \notin display

\* The worker renders one caller's spinner while another caller, having
\* already had a spinner of its own, is blocked sending its next request.
C3_Witness ==
  \E c, d \in Callers :
    /\ c # d
    /\ wpc = "animate" /\ wcur = c /\ c \in display
    /\ pc[d] = "send"

\* C4: when run_quiet or run_quiet_stdin has returned, on whatever path, its
\* spinner is off the terminal, its spinning flag is false and the worker has
\* handed over the acknowledgment (it no longer holds the request).
C4_SpinnerClearedOnReturn ==
  \A c \in Callers :
    (Captured(op[c]) /\ pc[c] \in {"ran", "done"})
      => (c \notin display /\ spinning[c] = FALSE /\ wcur # c)

\* run_quiet_stdin has returned the error of its stdin writer.
C4_Witness ==
  \E c \in Callers :
    RunReturned(c) /\ op[c] = "run_quiet_stdin" /\ result[c] = "writer_error"

\* C5, as stated: if the flag was false when the inspect command was found to
\* have failed (its child exited non-zero or was killed by a signal),
\* image_exists returns the interruption error, and never Ok(false).
C5_Original ==
  \A c \in Callers :
    (pc[c] = "done" /\ op[c] = "image_exists"
       /\ status[c] \in {"exitN", "signal"} /\ observed[c] = FALSE)
      => result[c] = InterruptMessage

\* C6: when the flag is still true as image_exists returns (so, the flag
\* being monotonic, throughout the call), it returns no error: Ok(true)
\* exactly when the inspect child exited with status zero, Ok(false) otherwise.
C6_ExistsWithoutCancellation ==
  \A c \in Callers :
    (pc[c] = "done" /\ op[c] = "image_exists" /\ running = TRUE)
      => /\ result[c] \in {"true", "false"}
         /\ (result[c] = "true") <=> (child[c] = "exit0")

\* image_exists has returned Ok(false) for an inspect that exited non-zero.
C6_Witness ==
  \E c \in Callers :
    /\ pc[c] = "done" /\ op[c] = "image_exists" /\ running = TRUE
    /\ child[c] = "exitN" /\ result[c] = "false"

\* The step in which a call's result is decided.
Decides(c) == result[c] = "none" /\ result'[c] # "none"

\* C9: a step in which the spawn fails, the wait fails or the stdin writer
\* returns an error decides the call's result at once (the call unwinds
\* without waiting for the child) and leaves the Cancellation Flag as it was.
C9_LaunchFailureKeepsFlag ==
  [][\A c \in Callers :
       (Decides(c) /\ result'[c] \in {"launch_error", "writer_error"})
         => (running' = running /\ pc'[c] \in {"drop", "ran"})]_vars

\* A stdin writer has failed on a child killed by a signal, and the flag is
\* still true.
C9_Witness ==
  \E c \in Callers :
    /\ RunReturned(c) /\ result[c] = "writer_error"
    /\ child[c] = "signal" /\ running = TRUE

\* The operation-specific error of a mode, spelled out.
ExpectedOpError(o) ==
  IF o \in {"run_loud_stdin", "run_attach"} THEN "error" ELSE "error_with_stderr"

----------------------------------------------------------------------------
\* Properties of copy_from_container.

\* copy_from_container has returned Ok(()).
CopySucceeded ==
  \E c \in Callers :
    pc[c] = "done" /\ op[c] = "copy_from_container" /\ result[c] = "ok"

\* The place at the destination of a container path under source_dir.
AtDestination(q) == DestinationDir \o StripPrefix(q, SourceDir)

\* The container paths a successful copy must bring over: each requested
\* path, everything below it, and the directories above it.
ExpectedPaths ==
  {q \in DOMAIN ContainerTree :
     \E i \in 1..Len(paths) :
       \/ IsPrefix(SourceDir \o paths[i], q)
       \/ IsPrefix(q, SourceDir \o paths[i])}

\* The files of the container below requested path p, when p is a directory.
FilesBelow(p) ==
  {q \in DOMAIN ContainerTree :
     /\ ContainerTree[SourceDir \o p].kind = "dir"
     /\ IsPrefix(SourceDir \o p, q)
     /\ ContainerTree[q].kind = "file"}

\* C7: every successful run leaves the destination tree the first successful
\* run left, and after each of them a file of a requested directory is at the
\* same relative place under the destination, never one level deeper under
\* the directory's own name.
C7_CopyIdempotent ==
  \A k \in 1..Len(snaps) :
    /\ snaps[k] = snaps[1]
    /\ \A i \in 1..Len(paths) :
         \A q \in FilesBelow(paths[i]) :
           LET p == paths[i]
               rel == StripPrefix(q, SourceDir \o p)
           IN /\ AtDestination(q) \in DOMAIN snaps[k]
              /\ (DestinationDir \o p \o <<p[Len(p)]>> \o rel) \notin DOMAIN snaps[k]

\* A second run has succeeded for a requested directory.
C7_Witness ==
  /\ Len(snaps) = 2
  /\ \E i \in 1..Len(paths) : paths[i] = <<"foo">>
  /\ <<"dst", "foo", "a">> \in DOMAIN snaps[2]

\* C8: after a first, successful run into an empty (or missing) destination,
\* the destination holds exactly the requested paths as the container has
\* them: every file and directory at the same relative place, with the
\* directories above them, and nothing else.
C8_CopyMirrors ==
  (CopySucceeded /\ runs = 1) =>
    LET dest == DestTree(fs)
    IN /\ \A q \in ExpectedPaths :
            /\ AtDestination(q) \in DOMAIN dest
            /\ dest[AtDestination(q)] = ContainerTree[q]
       /\ \A p \in DOMAIN dest :
            \/ p = DestinationDir
            \/ (SourceDir \o StripPrefix(p, DestinationDir)) \in ExpectedPaths

\* A first run has copied a file and a directory with a nested
\* sub-directory.
C8_Witness ==
  /\ CopySucceeded /\ runs = 1
  /\ paths = << <<"f">>, <<"foo">> >>
  /\ IsFile(fs, <<"dst", "f">>)
  /\ IsFile(fs, <<"dst", "foo", "sub", "b">>)
  /\ IsDir(fs, <<"dst", "foo", "sub">>)

\* ---------------------------------------------------------------------------
\* The spinner service: order, creation, liveness.

\* The worker's recv has met c's send in this step.
Accepted(c) == pc[c] = "send" /\ pc'[c] = "launch"

\* C11, as stated: spinner requests are serviced strictly in send order: the
\* request the worker accepts is the one whose caller began sending first
\* among the callers blocked in send.
C11_Original ==
  [][\A c \in Callers : Accepted(c) => c = Head(sendq)]_vars

\* C11: requests are serviced one at a time: the worker accepts a request only
\* from a caller blocked in send, only while it stands in recv holding no
\* request, and only once every earlier spinner has been cleared and its
\* caller acknowledged; which blocked sender it accepts is not determined.
C11_OneAtATime ==
  [][\A c \in Callers : Accepted(c) =>
        /\ \E i \in 1..Len(sendq) : sendq[i] = c
        /\ wpc = "recv" /\ wcur = NoCaller
        /\ display = {}
        /\ \A d \in Callers : ~Held(d)
        /\ wcur' = c /\ wpc' = "animate"]_vars

\* The worker has accepted one caller's request while another caller is still
\* blocked in send, both spinning flags being true.
C11_Witness ==
  \E c, d \in Callers :
    /\ c # d
    /\ wcur = c /\ pc[c] = "launch"
    /\ pc[d] = "send" /\ sendq = <<d>>
    /\ spinning[c] /\ spinning[d]

\* C12: the worker is a lazily created singleton: before the first spin()
\* there is no worker and nobody sends; however many callers race through
\* their first spin(), one worker thread and one request channel are created
\* and every blocked sender waits on that channel; once created the worker is
\* never created again and never ends.
C12_SingleWorker ==
  /\ [](/\ workers <= 1
        /\ (workers = 0) <=> (wpc = "none")
        /\ workers = 0 =>
             /\ sendq = <<>> /\ wcur = NoCaller /\ display = {}
             /\ \A c \in Callers : pc[c] # "send" /\ ~Held(c) /\ ~spinning[c]
        /\ \A c \in Callers :
             pc[c] = "send" => workers = 1 /\ (\E i \in 1..Len(sendq) : sendq[i] = c))
  /\ [][wpc # "none" => wpc' # "none" /\ workers' = workers]_vars

\* Every caller has gone through spin() for the first time before the worker
\* has accepted anything: all are blocked in send on the one channel of the
\* one worker.
C12_Witness ==
  /\ workers = 1
  /\ wpc = "recv"
  /\ Len(sendq) = NumCallers
  /\ \A c \in Callers : pc[c] = "send"
  /\ display = {}

\* ---------------------------------------------------------------------------
\* The child process and the flag, continued.

\* The call has spawned a child whose exit status the operating system can
\* still hand over (no wait has failed on it).
Spawned(c) == child[c] \in {"alive"} \cup ExitStatuses

\* C13, as stated: a call that has spawned a child has collected the child's
\* exit status by the time it returns, on every exit path, the failure of the
\* stdin writer of run_quiet_stdin and run_loud_stdin included.
C13_Original ==
  \A c \in Callers :
    (pc[c] \in {"drop", "await_ack", "ran", "done"} /\ Spawned(c)) =>
      status[c] \in ExitStatuses

\* In this step c's call finds its child killed by a signal: it takes the
\* status.code().is_none() branch and executes running.store(false).
Stores(c) == status[c] = "none" /\ status'[c] = "signal"

\* C14, as stated: the engine writes false to the flag exactly once, for the
\* first signal-killed child, and performs no write once the flag is false.
C14_Original ==
  [][\A c \in Callers : Stores(c) => running = TRUE]_vars

\* C14: the engine stores false each time a call finds its child killed by a
\* signal, whether the flag is still true or already false, and nothing else
\* in the engine changes the flag.
C14_StoresOnEverySignal ==
  [][/\ \A c \in Callers : Stores(c) => running' = FALSE
     /\ running' # running => \E c \in Callers : Stores(c) /\ running = TRUE]_vars

\* Two calls have each found their child killed by a signal: the second of
\* them stored false over false.
C14_Witness ==
  /\ running = FALSE
  /\ \E c, d \in Callers :
       /\ c # d
       /\ status[c] = "signal" /\ status[d] = "signal"
       /\ result[c] = InterruptMessage /\ result[d] = InterruptMessage

\* ---------------------------------------------------------------------------
\* copy_from_container: staging, failure, clean-up, traversal.

\* The native copy of c's call is about to be invoked or is running.
CpInvoked(c) ==
  /\ op[c] = "copy_from_container"
  /\ \/ pc[c] \in {"spin", "send", "launch"}
     \/ pc[c] = "wait" /\ child[c] = "alive"

\* C15: whenever the native copy is invoked, on a first run or a re-run, its
\* target is data inside the temporary directory just created: the target
\* does not exist, nothing exists below it, it lies outside the destination
\* root, and it is not the path's real destination.
C15_StagedTarget ==
  \A c \in Callers : CpInvoked(c) =>
    /\ IsDir(fs, temp)
    /\ Parent(temp) = TempRoot
    /\ Plan.intermediate = temp \o <<"data">>
    /\ \A q \in DOMAIN fs : ~IsPrefix(Plan.intermediate, q)
    /\ ~IsPrefix(DestinationDir, Plan.intermediate)
    /\ Plan.intermediate # Plan.destination

\* On a re-run the native copy runs while the path's destination already
\* exists from the run before.
C15_Witness ==
  \E c \in Callers :
    /\ CpInvoked(c)
    /\ pc[c] = "wait"
    /\ runs = 2
    /\ Len(snaps) = 1
    /\ Plan.destination \in DOMAIN fs

\* In this step c's copy_from_container returns an error.
Fails(c) ==
  /\ op[c] = "copy_from_container"
  /\ pc[c] # "done" /\ pc'[c] = "done"
  /\ result'[c] # "ok"

\* C16: copy_from_container stops at the first step that fails (tempdir, the
\* native copy failing or being cancelled, metadata, create_dir_all, rename):
\* the step that fails also returns the error, the path being processed is not
\* passed, what earlier steps put under the destination stays as it is, and
\* nothing is touched after the return.
C16_AbortsAtFirstFailure ==
  [][\A c \in Callers :
       /\ Fails(c) =>
            /\ DestTree(fs') = DestTree(fs)
            /\ idx' = idx /\ idx <= Len(paths)
            /\ snaps' = snaps
       /\ (pc[c] = "done" /\ result[c] # "ok") =>
            /\ fs' = fs /\ idx' = idx /\ temp' = temp]_vars

\* The second path of a first run has failed after the first path had been
\* moved to the destination, where it still is.
C16_Witness ==
  \E c \in Callers :
    /\ op[c] = "copy_from_container"
    /\ pc[c] = "done"
    /\ result[c] \in {"io_error", "error_with_stderr", InterruptMessage}
    /\ runs = 1
    /\ idx = 2
    /\ DestinationDir \o paths[1] \in DOMAIN fs

\* What exists inside the temporary root.
Staged(f) == {p \in DOMAIN f : IsPrefix(TempRoot, p) /\ p # TempRoot}

\* C17: a temporary directory exists only while copy_from_container is
\* processing the path it was created for: whenever the call stands between
\* two paths, has returned (with Ok or with any error, a failed or cancelled
\* native copy included) or is not running, nothing is left inside the
\* temporary root; and while a path is processed, what is there lies inside
\* that path's own temporary directory.
C17_StagingRemoved ==
  /\ Staged(fs) # {} =>
       /\ temp # <<>>
       /\ \A p \in Staged(fs) : IsPrefix(temp, p)
       /\ \E c \in Callers :
            /\ op[c] = "copy_from_container"
            /\ pc[c] \notin {"idle", "cp_loop", "done"}
  /\ (\A c \in Callers : pc[c] \in {"idle", "cp_loop", "done"}) =>
       Staged(fs) = {} /\ temp = <<>>

\* copy_from_container has returned the interruption error of a cancelled
\* native copy, and its temporary directory is gone.
C17_Witness ==
  \E c \in Callers :
    /\ op[c] = "copy_from_container"
    /\ pc[c] = "done"
    /\ result[c] = InterruptMessage
    /\ status[c] = "signal"
    /\ Staged(fs) = {}

\* The entries of the walk so far.
Walked == {walked[i] : i \in 1..Len(walked)}

\* C18: the directory case is walked parent before children: the staged copy
\* itself comes first and creates the destination root, every other entry
\* comes after the directory that holds it, so that the directory an entry is
\* about to be moved or created into already exists at the destination; no
\* entry is yielded twice, and a file that has been moved is at the
\* destination and no longer in the staged copy.
C18_ParentBeforeChildren ==
  \A c \in Callers : pc[c] = "walk" =>
    /\ walked # <<>> => walked[1] = <<>> /\ IsDir(fs, Plan.destination)
    /\ \A i \in 1..Len(walked) :
         /\ walked[i] # <<>> => \E j \in 1..(i - 1) : walked[j] = Parent(walked[i])
         /\ \A j \in 1..Len(walked) : j # i => walked[j] # walked[i]
         /\ IF Plan.intermediate \o walked[i] \in DOMAIN fs
            THEN /\ IsDir(fs, Plan.intermediate \o walked[i])
                 /\ IsDir(fs, EntryDestination(Plan.destination, walked[i]))
            ELSE IsFile(fs, EntryDestination(Plan.destination, walked[i]))
    /\ \A e \in NextEntries :
         /\ e \notin Walked
         /\ Plan.intermediate \o e \in DOMAIN fs
         /\ e # <<>> =>
              /\ Parent(e) \in Walked
              /\ IsDir(fs, Parent(EntryDestination(Plan.destination, e)))

\* On a first run the walk of foo has gone two directories deep and moved
\* the file foo/sub/b into the directory the walk created before it.
C18_Witness ==
  \E c \in Callers :
    /\ pc[c] = "walk"
    /\ runs = 1
    /\ paths[idx] = <<"foo">>
    /\ <<"sub", "b">> \in Walked
    /\ IsFile(fs, <<"dst", "foo", "sub", "b">>)
    /\ <<"sub", "b">> \notin {StripPrefix(q, Plan.intermediate) :
                               q \in {r \in DOMAIN fs : IsPrefix(Plan.intermediate, r)}}

\* C19: the spinner protocol is free of deadlock: under fair scheduling, with
\* children that eventually exit, every caller blocked sending its request is
\* eventually accepted by the worker, every caller that has released its
\* handle eventually receives the acknowledgment, and every caller that has
\* called a spinner-decorated operation eventually returns from it.
C19_SpinnerLive ==
  \A c \in Callers :
    /\ (pc[c] = "send") ~> (wcur = c)
    /\ (pc[c] = "await_ack") ~> (pc[c] \in {"ran", "done", "end"})
    /\ (pc[c] # "idle") ~> (pc[c] = "end")

\* One caller has released its handle and waits for the acknowledgment while
\* every other caller is blocked sending its request.
C19_Witness ==
  \E c \in Callers :
    /\ pc[c] = "await_ack"
    /\ wcur = c
    /\ Len(sendq) = NumCallers - 1
    /\ \A d \in Callers \ {c} : pc[d] = "send"

\* ---------------------------------------------------------------------------
\* The spinner and the child.

\* c's call has let go of its spinner handle (the guard has run).
HandleReleased(c) == pc[c] \in {"await_ack", "ran", "done"}

\* C20, as stated: a captured mode holds a spinner for the whole life of its
\* child: the worker has accepted the request before the child is spawned,
\* and the handle is let go only once the child's outcome has been
\* classified; an attached mode never sends a spinner request and has no
\* part in the state of the spinner service.
C20_Original ==
  \A c \in Callers :
    /\ (Captured(op[c]) /\ Spawned(c)) =>
         /\ pc[c] \notin {"spin", "send"}
         /\ ~HandleReleased(c) => wcur = c /\ spinning[c]
         /\ HandleReleased(c) => status[c] \in ExitStatuses /\ result[c] # "none"
    /\ (op[c] \in EngineOps /\ ~Captured(op[c])) =>
         /\ pc[c] \notin {"spin", "send", "drop", "await_ack"}
         /\ wcur # c /\ c \notin display /\ ~spinning[c]
         /\ \A i \in 1..Len(sendq) : sendq[i] # c

====
